---- MODULE Spec2Model ----
(***************************************************************************)
(* Model of the verifAI document-forgery client.                           *)
(*                                                                         *)
(* Two front ends exist in the repository and each is loaded on its own    *)
(* page: the main script (src/unnamed/part_000) and the React Hero         *)
(* component (src/frontend/src/components/Requirements.jsx).  The          *)
(* variable app says which of the two the page runs.                       *)
(*                                                                         *)
(* The event loop is modelled step by step: one action per handler, per    *)
(* settled network request and per fired timer.  Time is counted in ticks  *)
(* of 1000 ms, the granularity of every setTimeout of the code.            *)
(***************************************************************************)
EXTENDS Integers, Sequences, FiniteSets, TLC

(* ---------------------------------------------------------------- bounds *)
\* Number of submissions the user makes in one session.
MaxJobs == 2

\* Number of distinct values Date.now() can take in a session.
MaxStamp == 2

Jobs == 1..MaxJobs

(* -------------------------------------------------------------- constants *)
\* currentDocumentId = null
NullId == 0

\* setTimeout delays of processDocument, processFile and uploadToBackend, in
\* ticks of 1000 ms.
ElaDelay == 1
OcrDelay == 3
MetaDelay == 5
FinalDelay == 7
DisplayDelay == 1
ErrorDelay == 2
ResetDelay == 1

\* The wall-clock budget of a job, in ticks of 1000 ms.
Budget == 20

\* const maxSize = 16 * 1024 * 1024
maxSize == 16 * 1024 * 1024
MAX_SIZE == 16 * 1024 * 1024

validTypes == {"application/pdf", "image/png", "image/jpeg", "image/jpg"}
ALLOWED_TYPES == {"application/pdf", "image/png", "image/jpeg"}

\* An optional value: <<>> is null, <<v>> is the value v.
None == <<>>
Some(v) == <<v>>

(* ------------------------------------------------------------------ files *)
\* A candidate file: its declared MIME type, the extension of its name (the
\* text after its last ".", or "" when it has none; the rest of the name is
\* never read) and its size in bytes.
FileTypes == {"application/pdf", "image/jpg", "text/plain"}
FileExts == {"pdf", "JPG", "txt"}
FileSizes == {maxSize, maxSize + 1}
Files == [type : FileTypes, ext : FileExts, size : FileSizes]

\* String.prototype.toLowerCase on the extensions the model uses (the /i
\* flag).
Lower(e) ==
    CASE e = "JPG" -> "jpg"
      [] e = "PDF" -> "pdf"
      [] e = "Png" -> "png"
      [] e = "JpEg" -> "jpeg"
      [] OTHER -> e

\* file.name.match(/\.(pdf|png|jpg|jpeg)$/i)
NameMatches(file) == Lower(file.ext) \in {"pdf", "png", "jpg", "jpeg"}

\* A slip that rejects a file of exactly the maximum size.
validateFile_Exclusive(file) ==
    IF file.type \notin validTypes /\ ~NameMatches(file) THEN FALSE
    ELSE IF file.size >= maxSize THEN FALSE
    ELSE TRUE

\* validateFile of the main script.
validateFile(file) ==
    IF file.type \notin validTypes /\ ~NameMatches(file) THEN FALSE
    ELSE IF file.size > maxSize THEN FALSE
    ELSE TRUE

(* ---------------------------------------------------------------- results *)
\* A slip that lets the overall confidence depend on the current document id.
generateMockResults_ByDocument(docId) ==
    [document_id |-> docId,
     confidence |-> 87 - docId,
     uncertainty |-> 13 + docId,
     signals |->
       [ela |-> [confidence |-> 85, findings |-> <<>>],
        ocr |-> [confidence |-> 75, findings |-> <<>>],
        metadata |-> [confidence |-> 95, findings |-> <<>>]],
     verdict |-> "SUSPICIOUS"]

\* generateMockResults(): the fixed result of the main script, carrying the
\* value currentDocumentId has when it is called.
generateMockResults(docId) ==
    [document_id |-> docId,
     confidence |-> 87,
     uncertainty |-> 13,
     processing_time |-> "14.5",
     signals |->
       [ela |->
          [confidence |-> 85,
           findings |->
             << [region |-> <<100, 150, 200, 80>>, confidence |-> 90,
                 description |-> "Date field shows copy-paste artifacts"],
                [region |-> <<300, 250, 150, 50>>, confidence |-> 80,
                 description |-> "Amount field has inconsistent compression"] >>,
           summary |-> "Multiple regions show editing artifacts"],
        ocr |->
          [confidence |-> 75,
           findings |->
             << [region |-> <<100, 150, 200, 30>>, confidence |-> 70,
                 description |-> "Font inconsistency in date field"],
                [region |-> <<300, 250, 150, 30>>, confidence |-> 80,
                 description |-> "Text alignment mismatch"] >>,
           summary |-> "Text formatting inconsistencies detected"],
        metadata |->
          [confidence |-> 95,
           findings |->
             << [confidence |-> 95,
                 description |-> "Creation date (2024-01-15) is after modification date (2023-12-20)"],
                [confidence |-> 90,
                 description |-> "Software metadata shows Photoshop for a PDF document"] >>,
           summary |-> "Metadata anomalies suggest document editing"]],
     verdict |-> "SUSPICIOUS",
     recommendations |->
       << "Verify date fields with issuing authority",
          "Check amount fields against bank records",
          "Request original document for comparison" >>]

\* The regions a findings list contributes: every finding with a region,
\* tagged with its signal and colour (the forEach loops of updateHeatmap).
RECURSIVE RegionsOf(_, _, _)
RegionsOf(findings, signal, color) ==
    IF findings = <<>> THEN <<>>
    ELSE LET f == Head(findings)
             rest == RegionsOf(Tail(findings), signal, color)
         IN IF "region" \in DOMAIN f
            THEN <<[region |-> f.region, confidence |-> f.confidence,
                    description |-> f.description, signal |-> signal,
                    color |-> color]>> \o rest
            ELSE rest

\* const sampleRegions of drawSampleRegions.
sampleRegions ==
    << [region |-> <<100, 150, 200, 80>>, confidence |-> 90,
        description |-> "Date field anomaly", signal |-> "ela"],
       [region |-> <<300, 250, 150, 50>>, confidence |-> 80,
        description |-> "Amount field issue", signal |-> "ocr"],
       [region |-> <<200, 350, 100, 40>>, confidence |-> 70,
        description |-> "Signature area", signal |-> "ela"] >>

\* drawSampleRegions: pushes every sample region onto heatmapRegions.
drawSampleRegions(regions) == regions \o sampleRegions

\* A slip that collects the OCR findings before the ELA findings.
updateHeatmap_OcrFirst(signals) ==
    drawSampleRegions(
        RegionsOf(signals.ocr.findings, "ocr", "rgba(255, 193, 7, 0.3)")
        \o RegionsOf(signals.ela.findings, "ela", "rgba(220, 53, 69, 0.3)"))

\* updateHeatmap: heatmapRegions is emptied, filled from the ELA and the OCR
\* findings, and then drawSampleRegions appends its samples.
updateHeatmap(signals) ==
    drawSampleRegions(
        RegionsOf(signals.ela.findings, "ela", "rgba(220, 53, 69, 0.3)")
        \o RegionsOf(signals.ocr.findings, "ocr", "rgba(255, 193, 7, 0.3)"))

\* Template literals: `${n}` writes the number n in decimal digits.
RECURSIVE ToDigits(_)
ToDigits(n) == IF n < 10 THEN <<n>> ELSE ToDigits(n \div 10) \o <<n % 10>>

\* A line of the report: fixed text, or a label followed by an interpolated
\* value and a fixed suffix.  (Every line also carries the indentation of
\* the template, which is the same for all lines and left out here.)
Text(s) == [text |-> s]
Field(label, value, suffix) ==
    [label |-> label, value |-> value, suffix |-> suffix]

\* A slip that writes the confidence on the uncertainty line too.
assessmentLines_Copied(r) ==
    << Text("OVERALL ASSESSMENT"),
       Text("------------------"),
       Field("Confidence: ", ToDigits(r.confidence), "%"),
       Field("Uncertainty: ", ToDigits(r.confidence), "%"),
       Field("Verdict: ", r.verdict, "") >>

\* reportContent, the OVERALL ASSESSMENT block.
assessmentLines(r) ==
    << Text("OVERALL ASSESSMENT"),
       Text("------------------"),
       Field("Confidence: ", ToDigits(r.confidence), "%"),
       Field("Uncertainty: ", ToDigits(r.uncertainty), "%"),
       Field("Verdict: ", r.verdict, "") >>

\* reportContent, the SIGNAL ANALYSIS block.
signalLines(r) ==
    << Text("SIGNAL ANALYSIS"),
       Text("---------------"),
       Text(""),
       Field("1. ERROR LEVEL ANALYSIS (", ToDigits(r.signals.ela.confidence), "%)"),
       Text(r.signals.ela.summary),
       Text(""),
       Field("2. TEXT INCONSISTENCY ANALYSIS (",
             ToDigits(r.signals.ocr.confidence), "%)"),
       Text(r.signals.ocr.summary),
       Text(""),
       Field("3. METADATA FORENSICS (",
             ToDigits(r.signals.metadata.confidence), "%)"),
       Text(r.signals.metadata.summary) >>

\* A slip that reports the first recommendation only.
recommendationLines_First(r) ==
    << Text("RECOMMENDATIONS"), Text("---------------"),
       Field("* ", r.recommendations[1], "") >>

\* reportContent, the RECOMMENDATIONS block: recommendations.map(r => "* " + r)
\* joined by line breaks (the bullet is U+2022 in the source).
recommendationLines(r) ==
    << Text("RECOMMENDATIONS"), Text("---------------") >>
    \o [i \in 1..Len(r.recommendations) |->
           Field("* ", r.recommendations[i], "")]

\* const reportContent of generateForensicReport for detectionResults r;
\* stamp is new Date().toLocaleString().  (The footer's U+2022 is written
\* "-" here.)
reportContent(r, stamp) ==
    << Text(""),
       Text("DOCUMENT FORENSIC REPORT"),
       Text("========================"),
       Text(""),
       Field("Document ID: ", r.document_id, ""),
       Field("Analysis Time: ", stamp, ""),
       Text("") >>
    \o assessmentLines(r)
    \o << Text("") >>
    \o signalLines(r)
    \o << Text("") >>
    \o recommendationLines(r)
    \o << Text(""),
          Text("---"),
          Text("Generated by DocVerify - Explainable Document Forgery Detection"),
          Text("HackTheWinter 2024 - ML-103"),
          Text("") >>

\* a.download of generateForensicReport.
reportName(r) == <<"forensic_report_", r.document_id, ".txt">>

\* A slip that leaves the right and the bottom edge out of a region.
Hit_HalfOpen(entry, event) ==
    LET rx == entry.region[1]
        ry == entry.region[2]
        rwidth == entry.region[3]
        rheight == entry.region[4]
    IN /\ event.x * event.sx.num >= rx * event.sx.den
       /\ event.x * event.sx.num < (rx + rwidth) * event.sx.den
       /\ event.y * event.sy.num >= ry * event.sy.den
       /\ event.y * event.sy.num < (ry + rheight) * event.sy.den

\* The test of handleHeatmapClick's find callback on one entry.  The click is
\* at (x, y) from the corner of the canvas's bounding rectangle, and sx, sy
\* are the ratios canvas.width / rect.width and canvas.height / rect.height,
\* as fractions num/den; canvasX >= rx is x * num / den >= rx.
Hit(entry, event) ==
    LET rx == entry.region[1]
        ry == entry.region[2]
        rwidth == entry.region[3]
        rheight == entry.region[4]
    IN /\ event.x * event.sx.num >= rx * event.sx.den
       /\ event.x * event.sx.num <= (rx + rwidth) * event.sx.den
       /\ event.y * event.sy.num >= ry * event.sy.den
       /\ event.y * event.sy.num <= (ry + rheight) * event.sy.den

\* A slip that takes the last matching entry instead of the first.
find_Last(regions, event) ==
    LET hits == {i \in 1..Len(regions) : Hit(regions[i], event)}
    IN IF hits = {} THEN None
       ELSE Some(regions[CHOOSE i \in hits : \A k \in hits : k <= i])

\* heatmapRegions.find(...): the first entry that passes the test, if any.
find(regions, event) ==
    LET hits == {i \in 1..Len(regions) : Hit(regions[i], event)}
    IN IF hits = {} THEN None
       ELSE Some(regions[CHOOSE i \in hits : \A k \in hits : i <= k])

\* updateConfidenceDisplay: the text it puts in confidenceText for an overall
\* confidence.
confidenceText(confidence) ==
    IF confidence >= 80 THEN "HIGH CONFIDENCE - Document likely tampered"
    ELSE IF confidence >= 50 THEN "MEDIUM CONFIDENCE - Document suspicious"
    ELSE "LOW CONFIDENCE - Document likely authentic"

\* Hero: the class of the overall confidence figure and bar.
Hero_confidenceClass(overall_confidence) ==
    IF overall_confidence >= 80 THEN "text-red-600"
    ELSE IF overall_confidence >= 60 THEN "text-yellow-600"
    ELSE "text-green-600"

(* ------------------------------------------------------------------ state *)
VARIABLES
    app,                \* "script" (main script) or "hero" (Hero component)
    currentDocumentId,  \* main script: let currentDocumentId
    detectionResults,   \* main script: let detectionResults (None is null)
    heatmapRegions,     \* main script: let heatmapRegions
    progress,           \* main script: processingProgress.style.width, in %
    processingShown,    \* main script: processingSection is displayed
    lastAlert,          \* the message of the last alert() call
    uploading,          \* Hero: useState uploading
    heroResults,        \* Hero: useState results (None is null)
    processingProgress, \* Hero: useState processingProgress
    pc,                 \* per submission: where its promise chain stands
    timers,             \* pending setTimeout callbacks, in registration order
    results,            \* per job: the value processDocument resolved with
    stages,             \* per job: the progress values it set during its
                        \* lifecycle, in order
    upOutcome,          \* per job: how its upload request settled
    procOutcome,        \* per job: how its process request settled
    clock,              \* ticks since the first submission (timed runs only)
    call,               \* function-level runs: the call under test (None in
                        \* a session)
    ret,                \* function-level runs: the value the call returned
    regionModal,        \* main script: the region the details modal shows
                        \* (None when no modal was opened)
    signalModal,        \* main script: what the signal details modal shows
                        \* (None when no modal was opened)
    download            \* main script: the file the page made the browser
                        \* download (None when there was none)

scriptVars == <<currentDocumentId, detectionResults, heatmapRegions, progress,
                processingShown>>
heroVars == <<uploading, heroResults, processingProgress>>
jobVars == <<pc, timers, results, stages, upOutcome, procOutcome>>
callVars == <<call, ret, regionModal, signalModal, download>>
vars == <<app, scriptVars, heroVars, lastAlert, jobVars, clock, callVars>>

\* The document_id the upload endpoint answers with: the service issues a
\* fresh identifier for every upload.
DocIdOf(j) == j

\* How an upload request can settle other than with a well-formed 2xx answer:
\* a non-2xx status, a rejected fetch (or a body that is not JSON, which
\* rejects the same way), or a 2xx answer without file_info.
UploadFailures == {"http_error", "network_error", "no_file_info"}

\* How the process request can fail: a rejected fetch or an unparsable body.
ProcessFailures == {"network_error", "bad_json"}

\* Submissions are numbered in the order the user makes them: j is the
\* number of the next one.
NextJob(j) == pc[j] = "idle" /\ \A k \in Jobs : k < j => pc[k] # "idle"

\* The state of a freshly loaded page.
PageLoaded ==
    /\ app \in {"script", "hero"}
    /\ currentDocumentId = NullId
    /\ detectionResults = None
    /\ heatmapRegions = <<>>
    /\ progress = 0
    /\ processingShown = FALSE
    /\ lastAlert = "none"
    /\ uploading = FALSE
    /\ heroResults = None
    /\ processingProgress = 0
    /\ pc = [j \in Jobs |-> "idle"]
    /\ timers = <<>>
    /\ results = [j \in Jobs |-> None]
    /\ stages = [j \in Jobs |-> <<>>]
    /\ upOutcome = [j \in Jobs |-> "pending"]
    /\ procOutcome = [j \in Jobs |-> "pending"]
    /\ clock = 0

Init ==
    /\ PageLoaded
    /\ call = None
    /\ ret = None
    /\ regionModal = None
    /\ signalModal = None
    /\ download = None

(* ----------------------------------------------------------------- timers *)
Timer(j, kind, delay) == [job |-> j, kind |-> kind, rem |-> delay, delay |-> delay]

HasTimer(j, kind) ==
    \E i \in 1..Len(timers) : timers[i].job = j /\ timers[i].kind = kind

TimerIndex(j, kind) ==
    CHOOSE i \in 1..Len(timers) : timers[i].job = j /\ timers[i].kind = kind

\* A timer runs once its delay has passed, and after every timer registered
\* before it with a delay no longer than its own (the timer ordering of the
\* HTML event loop).
CanFire(i) ==
    /\ timers[i].rem = 0
    /\ \A k \in 1..(i - 1) :
          ~(timers[k].rem = 0 /\ timers[k].delay <= timers[i].delay)

Due(j, kind) == HasTimer(j, kind) /\ CanFire(TimerIndex(j, kind))

Without(i) == SubSeq(timers, 1, i - 1) \o SubSeq(timers, i + 1, Len(timers))

Fired(j, kind) == Without(TimerIndex(j, kind))

\* 1000 ms pass: possible only when no timer is due.
Elapse ==
    /\ \A i \in 1..Len(timers) : timers[i].rem > 0
    /\ timers' = [i \in 1..Len(timers) |-> [timers[i] EXCEPT !.rem = @ - 1]]

Tick ==
    /\ timers # <<>>
    /\ Elapse
    /\ UNCHANGED <<app, callVars,
                   scriptVars, heroVars, lastAlert, pc, results, stages,
                   upOutcome, procOutcome, clock>>

\* 1000 ms pass on the wall clock of the first job, which stops counting
\* once the budget is exceeded.
TickClock ==
    /\ pc[1] # "idle"
    /\ Elapse
    /\ clock' = IF clock > Budget THEN clock ELSE clock + 1
    /\ UNCHANGED <<app, callVars,
                   scriptVars, heroVars, lastAlert, pc, results, stages,
                   upOutcome, procOutcome>>

\* Bodies the process endpoint can answer a 2xx request with: processData is
\* whatever JSON the service sends for the document.
LivePayloads(d) ==
    { [document_id |-> d, overall_confidence |-> c.conf, uncertainty |-> c.unc,
       verdict |-> c.verdict,
       signals |->
         [ela |-> [confidence |-> c.conf, summary |-> "ELA"],
          ocr |-> [confidence |-> c.conf, summary |-> "OCR"],
          metadata |-> [confidence |-> c.conf, summary |-> "META"]]] :
      c \in { [conf |-> 30, unc |-> 10, verdict |-> "LIKELY_AUTHENTIC"],
              [conf |-> 85, unc |-> 15, verdict |-> "TAMPERED"] } }

\* The JSON body of a non-2xx answer of the service.
ErrorBody == [error |-> "Document not found"]

\* Every JSON body the process endpoint can answer with.
ProcessBodies(d) == LivePayloads(d) \cup {ErrorBody}

(* ------------------------------------------------------------ main script *)
\* updateProcessingStatus(message, progress) called by job j.
SetProgress(j, p) ==
    /\ progress' = p
    /\ stages' = [stages EXCEPT ![j] = Append(@, p)]

\* A slip that calls showProcessing before the file is validated.
processFile_ShowFirst(j, file) ==
    /\ app = "script"
    /\ NextJob(j)
    /\ processingShown' = TRUE
    /\ IF ~validateFile(file)
       THEN /\ lastAlert' = "invalid_file"
            /\ pc' = [pc EXCEPT ![j] = "rejected"]
            /\ UNCHANGED <<currentDocumentId, detectionResults, heatmapRegions,
                           progress, timers, results, stages, upOutcome,
                           procOutcome>>
       ELSE /\ SetProgress(j, 10)
            /\ pc' = [pc EXCEPT ![j] = "uploading"]
            /\ UNCHANGED <<currentDocumentId, detectionResults, heatmapRegions,
                           lastAlert, timers, results, upOutcome, procOutcome>>
    /\ UNCHANGED <<app, callVars, heroVars, clock>>

\* processFile(file): validation, showProcessing, and the upload fetch.
processFile(j, file) ==
    /\ app = "script"
    /\ NextJob(j)
    /\ IF ~validateFile(file)
       THEN /\ lastAlert' = "invalid_file"
            /\ pc' = [pc EXCEPT ![j] = "rejected"]
            /\ UNCHANGED <<scriptVars, timers, results, stages, upOutcome,
                           procOutcome>>
       ELSE /\ processingShown' = TRUE
            /\ SetProgress(j, 10)
            /\ pc' = [pc EXCEPT ![j] = "uploading"]
            /\ UNCHANGED <<currentDocumentId, detectionResults, heatmapRegions,
                           lastAlert, timers, results, upOutcome, procOutcome>>
    /\ UNCHANGED <<app, callVars, heroVars, clock>>

\* handleFileSelect: the file picker's change event.
handleFileSelect(j, file) == processFile(j, file)

\* handleDrop: a file dropped on the upload zone.
handleDrop(j, file) == processFile(j, file)

\* The .catch handler of processFile: progress is set to 0 and the error
\* alert is scheduled.
CatchError(j) ==
    /\ SetProgress(j, 0)
    /\ timers' = Append(timers, Timer(j, "error", ErrorDelay))
    /\ pc' = [pc EXCEPT ![j] = "errorPending"]

\* A slip that gives the ELA step the delay of the OCR step and vice versa.
StageTimers_Swapped(j) ==
    << Timer(j, "ela", OcrDelay), Timer(j, "ocr", ElaDelay),
       Timer(j, "meta", MetaDelay), Timer(j, "final", FinalDelay) >>

\* The four setTimeout calls of processDocument, in the order it makes them.
StageTimers(j) ==
    << Timer(j, "ela", ElaDelay), Timer(j, "ocr", OcrDelay),
       Timer(j, "meta", MetaDelay), Timer(j, "final", FinalDelay) >>

\* The upload answers 2xx with {document_id, file_info, process_endpoint}:
\* the .then(data => ...) handler, and processDocument registering its timers.
UploadSucceeded(j) ==
    /\ app = "script"
    /\ pc[j] = "uploading"
    /\ upOutcome' = [upOutcome EXCEPT ![j] = "ok"]
    /\ currentDocumentId' = DocIdOf(j)
    /\ SetProgress(j, 25)
    /\ timers' = timers \o StageTimers(j)
    /\ pc' = [pc EXCEPT ![j] = "analysing"]
    /\ UNCHANGED <<app, callVars,
                   detectionResults, heatmapRegions, processingShown,
                   heroVars, lastAlert, results, procOutcome, clock>>

\* The upload fails: every failure ends in the .catch handler.  A 2xx answer
\* without file_info throws after currentDocumentId was assigned.
UploadFailed(j, outcome) ==
    /\ app = "script"
    /\ pc[j] = "uploading"
    /\ upOutcome' = [upOutcome EXCEPT ![j] = outcome]
    /\ currentDocumentId' =
          IF outcome = "no_file_info" THEN DocIdOf(j) ELSE currentDocumentId
    /\ CatchError(j)
    /\ UNCHANGED <<app, callVars,
                   detectionResults, heatmapRegions, processingShown,
                   heroVars, lastAlert, results, procOutcome, clock>>

\* A stage timer of processDocument: it only reports progress.
StageTimer(j, kind, p) ==
    /\ app = "script"
    /\ Due(j, kind)
    /\ SetProgress(j, p)
    /\ timers' = Fired(j, kind)
    /\ UNCHANGED <<app, callVars,
                   currentDocumentId, detectionResults, heatmapRegions,
                   processingShown, heroVars, lastAlert, pc, results,
                   upOutcome, procOutcome, clock>>

ElaTimer(j) == StageTimer(j, "ela", 33)
OcrTimer(j) == StageTimer(j, "ocr", 66)
MetaTimer(j) == StageTimer(j, "meta", 80)

\* The last timer of processDocument: progress 90 and fetch(processEndpoint).
FinalTimer(j) ==
    /\ app = "script"
    /\ Due(j, "final")
    /\ SetProgress(j, 90)
    /\ timers' = Fired(j, "final")
    /\ pc' = [pc EXCEPT ![j] = "processing"]
    /\ UNCHANGED <<app, callVars,
                   currentDocumentId, detectionResults, heatmapRegions,
                   processingShown, heroVars, lastAlert, results,
                   upOutcome, procOutcome, clock>>

\* A slip that schedules displayResults twice for one resolved promise.
Resolved_Twice(j, r) ==
    /\ results' = [results EXCEPT ![j] = Some(r)]
    /\ SetProgress(j, 100)
    /\ timers' = timers \o << Timer(j, "display", DisplayDelay),
                              Timer(j, "display", DisplayDelay) >>
    /\ pc' = [pc EXCEPT ![j] = "displayPending"]
    /\ UNCHANGED <<currentDocumentId, detectionResults, heatmapRegions,
                   processingShown, lastAlert>>

\* processDocument's promise is resolved with value r; the
\* .then(results => ...) handler of processFile runs in the same task:
\* progress 100 and the delayed displayResults.
Resolved(j, r) ==
    /\ results' = [results EXCEPT ![j] = Some(r)]
    /\ SetProgress(j, 100)
    /\ timers' = Append(timers, Timer(j, "display", DisplayDelay))
    /\ pc' = [pc EXCEPT ![j] = "displayPending"]
    /\ UNCHANGED <<currentDocumentId, detectionResults, heatmapRegions,
                   processingShown, lastAlert>>

\* A slip that takes the confidence and the verdict from the body of the
\* answer when it has them.
ProcessFetched_UseData(j, data) ==
    /\ app = "script"
    /\ pc[j] = "processing"
    /\ procOutcome' = [procOutcome EXCEPT ![j] = "json"]
    /\ Resolved(j, IF "overall_confidence" \in DOMAIN data
                   THEN [generateMockResults(currentDocumentId)
                            EXCEPT !.confidence = data.overall_confidence,
                                   !.verdict = data.verdict]
                   ELSE generateMockResults(currentDocumentId))
    /\ UNCHANGED <<app, callVars, heroVars, upOutcome, clock>>

\* fetch(processEndpoint) answers with the JSON body data, whatever its
\* status: the .then(data => ...) handler does not read data, and the mock
\* result resolves the promise.
ProcessFetched(j, data) ==
    /\ app = "script"
    /\ pc[j] = "processing"
    /\ procOutcome' = [procOutcome EXCEPT ![j] = "json"]
    /\ Resolved(j, generateMockResults(currentDocumentId))
    /\ UNCHANGED <<app, callVars, heroVars, upOutcome, clock>>

\* A .catch that passes the failure on (reject(error)) instead of absorbing it.
OnProcessError_Reject(j) ==
    /\ CatchError(j)
    /\ UNCHANGED <<currentDocumentId, detectionResults, heatmapRegions,
                   processingShown, lastAlert, results>>

\* What the .catch of processDocument does with a failed process request.
OnProcessError(j) == Resolved(j, generateMockResults(currentDocumentId))

\* fetch(processEndpoint) is rejected or its body does not parse.
ProcessFetchFailed(j, outcome) ==
    /\ app = "script"
    /\ pc[j] = "processing"
    /\ procOutcome' = [procOutcome EXCEPT ![j] = outcome]
    /\ OnProcessError(j)
    /\ UNCHANGED <<app, callVars, heroVars, upOutcome, clock>>

\* A slip that keeps the entries of the index and adds the new ones.
displayResults_Accumulate(r) ==
    /\ detectionResults' = Some(r)
    /\ processingShown' = FALSE
    /\ heatmapRegions' = heatmapRegions \o updateHeatmap(r.signals)

\* displayResults(results): the delayed callback of processFile.
displayResults(r) ==
    /\ detectionResults' = Some(r)
    /\ processingShown' = FALSE
    /\ heatmapRegions' = updateHeatmap(r.signals)

DisplayTimer(j) ==
    /\ app = "script"
    /\ Due(j, "display")
    /\ displayResults(results[j][1])
    /\ timers' = Fired(j, "display")
    /\ pc' = [pc EXCEPT ![j] = "done"]
    /\ UNCHANGED <<app, callVars,
                   currentDocumentId, progress, heroVars, lastAlert,
                   results, stages, upOutcome, procOutcome, clock>>

\* A slip that empties the index once a region was clicked.
handleHeatmapClick_Consume(event) ==
    /\ app = "script"
    /\ LET clickedRegion == find(heatmapRegions, event)
       IN /\ regionModal' =
                IF clickedRegion # None THEN clickedRegion ELSE regionModal
          /\ heatmapRegions' =
                IF clickedRegion # None THEN <<>> ELSE heatmapRegions
    /\ UNCHANGED <<app, call, signalModal, download, currentDocumentId,
                   detectionResults, progress, processingShown, heroVars,
                   lastAlert, jobVars, clock>>

\* handleHeatmapClick(event): the clicked region, if any, is shown by
\* showRegionDetails.
handleHeatmapClick(event) ==
    /\ app = "script"
    /\ LET clickedRegion == find(heatmapRegions, event)
       IN regionModal' =
             IF clickedRegion # None THEN clickedRegion ELSE regionModal
    /\ UNCHANGED <<app, call, signalModal, download, scriptVars, heroVars,
                   lastAlert, jobVars, clock>>

\* The title showSignalDetails gives the modal of a signal type.
signalName(signalType) ==
    IF signalType = "ela" THEN "Error Level Analysis"
    ELSE IF signalType = "ocr" THEN "Text Inconsistency"
    ELSE "Metadata Forensics"

\* showSignalDetails(signalType) throws: detectionResults.signals has no
\* such key, so signal is undefined and reading signal.findings is a
\* TypeError.
showSignalDetails_throws(signalType) ==
    /\ detectionResults # None
    /\ signalType \notin DOMAIN detectionResults[1].signals

\* showSignalDetails(signalType): the click handler of a signal card.  It
\* returns at once without results, and where it throws no modal is built.
showSignalDetails(signalType) ==
    /\ app = "script"
    /\ signalModal' =
          IF detectionResults = None \/ showSignalDetails_throws(signalType)
          THEN signalModal
          ELSE LET signal == detectionResults[1].signals[signalType]
               IN Some([title |-> signalName(signalType),
                        summary |-> signal.summary,
                        confidence |-> signal.confidence,
                        findings |->
                          [i \in 1..Len(signal.findings) |->
                             [description |-> signal.findings[i].description,
                              confidence |-> signal.findings[i].confidence]]])
    /\ UNCHANGED <<app, call, regionModal, download, scriptVars, heroVars,
                   lastAlert, jobVars, clock>>

\* A slip that downloads an empty report when there are no results.
generateForensicReport_Partial(stamp) ==
    /\ app = "script"
    /\ IF detectionResults = None
       THEN /\ lastAlert' = "no_results"
            /\ download' = Some([name |-> <<"forensic_report_", NullId, ".txt">>,
                                  content |-> <<>>])
       ELSE /\ download' = Some([name |-> reportName(detectionResults[1]),
                                  content |-> reportContent(detectionResults[1],
                                                            stamp)])
            /\ lastAlert' = "report_downloaded"
    /\ UNCHANGED <<app, call, regionModal, signalModal, scriptVars, heroVars,
                   jobVars,
                   clock>>

\* generateForensicReport(): the click handler of the report button.
generateForensicReport(stamp) ==
    /\ app = "script"
    /\ IF detectionResults = None
       THEN /\ lastAlert' = "no_results"
            /\ UNCHANGED download
       ELSE /\ download' = Some([name |-> reportName(detectionResults[1]),
                                  content |-> reportContent(detectionResults[1],
                                                            stamp)])
            /\ lastAlert' = "report_downloaded"
    /\ UNCHANGED <<app, call, regionModal, signalModal, scriptVars, heroVars,
                   jobVars,
                   clock>>

\* A slip that clears the displayed result when a job fails.
ErrorTimer_Reset(j) ==
    /\ app = "script"
    /\ Due(j, "error")
    /\ processingShown' = FALSE
    /\ detectionResults' = None
    /\ heatmapRegions' = <<>>
    /\ lastAlert' = "error"
    /\ timers' = Fired(j, "error")
    /\ pc' = [pc EXCEPT ![j] = "failed"]
    /\ UNCHANGED <<app, callVars, currentDocumentId, progress, heroVars,
                   results, stages, upOutcome, procOutcome, clock>>

\* The delayed callback of the .catch handler: hideProcessing and the alert.
ErrorTimer(j) ==
    /\ app = "script"
    /\ Due(j, "error")
    /\ processingShown' = FALSE
    /\ lastAlert' = "error"
    /\ timers' = Fired(j, "error")
    /\ pc' = [pc EXCEPT ![j] = "failed"]
    /\ UNCHANGED <<app, callVars,
                   currentDocumentId, detectionResults, heatmapRegions,
                   progress, heroVars, results, stages, upOutcome,
                   procOutcome, clock>>

\* The user submits a document as job j through either input path.
ScriptSubmit(j) ==
    \/ \E file \in Files : handleFileSelect(j, file)
    \/ \E file \in Files : handleDrop(j, file)

\* The callbacks of the event loop: settled requests and fired timers.
ScriptCallbacks ==
    \/ \E j \in Jobs : UploadSucceeded(j)
    \/ \E j \in Jobs, o \in UploadFailures : UploadFailed(j, o)
    \/ \E j \in Jobs : ElaTimer(j)
    \/ \E j \in Jobs : OcrTimer(j)
    \/ \E j \in Jobs : MetaTimer(j)
    \/ \E j \in Jobs : FinalTimer(j)
    \/ \E j \in Jobs : \E data \in ProcessBodies(DocIdOf(j)) :
          ProcessFetched(j, data)
    \/ \E j \in Jobs, o \in ProcessFailures : ProcessFetchFailed(j, o)
    \/ \E j \in Jobs : DisplayTimer(j)
    \/ \E j \in Jobs : ErrorTimer(j)

(* --------------------------------------------------------- Hero component *)
\* validateFile of the Hero component: "ok", or the alert it raises.
Hero_validateFile(file) ==
    IF file.type \notin ALLOWED_TYPES THEN "invalid_type"
    ELSE IF file.size > MAX_SIZE THEN "too_large"
    ELSE "ok"

\* const mockResults of uploadToBackend's catch block; stamp is Date.now().
mockResults(stamp) ==
    [document_id |-> <<"demo_", stamp>>,
     overall_confidence |-> 78,
     uncertainty |-> 22,
     processing_time |-> "12.5",
     verdict |-> "SUSPICIOUS",
     signals |->
       [ela |-> [name |-> "Error Level Analysis", confidence |-> 85,
                 summary |-> "Editing artifacts detected in 2 regions"],
        ocr |-> [name |-> "Text Inconsistency", confidence |-> 70,
                 summary |-> "Font and alignment inconsistencies found"],
        metadata |-> [name |-> "Metadata Forensics", confidence |-> 80,
                      summary |-> "Metadata anomalies detected"]]]

\* setProcessingProgress called by job j with the values ps, one after the
\* other.
HeroSetProgress(j, ps) ==
    /\ processingProgress' = ps[Len(ps)]
    /\ stages' = [stages EXCEPT ![j] = @ \o ps]

\* The finally block of uploadToBackend.
HeroFinally(j) ==
    /\ uploading' = FALSE
    /\ timers' = Append(timers, Timer(j, "reset", ResetDelay))
    /\ pc' = [pc EXCEPT ![j] = "ended"]

\* The catch block of uploadToBackend, followed by the finally block.
HeroCatch(j, stamp) ==
    /\ heroResults' = Some(mockResults(stamp))
    /\ lastAlert' = "demo_data"
    /\ HeroFinally(j)
    /\ UNCHANGED <<processingProgress, stages, results>>

\* The body shared by handleDrop and handleFileSelect: validateFile, then
\* uploadToBackend up to its first await.
HeroSubmit(j, file) ==
    /\ app = "hero"
    /\ NextJob(j)
    /\ IF Hero_validateFile(file) # "ok"
       THEN /\ lastAlert' = Hero_validateFile(file)
            /\ pc' = [pc EXCEPT ![j] = "rejected"]
            /\ UNCHANGED <<heroVars, timers, results, stages, upOutcome,
                           procOutcome>>
       ELSE /\ uploading' = TRUE
            /\ HeroSetProgress(j, <<25, 50>>)
            /\ pc' = [pc EXCEPT ![j] = "uploading"]
            /\ UNCHANGED <<heroResults, lastAlert, timers, results, upOutcome,
                           procOutcome>>
    /\ UNCHANGED <<app, callVars, scriptVars, clock>>

\* handleDrop of the Hero component: the upload box takes a drop at any time.
Hero_handleDrop(j, file) == HeroSubmit(j, file)

\* handleFileSelect of the Hero component: the input and the button are
\* disabled while uploading is true.
Hero_handleFileSelect(j, file) == ~uploading /\ HeroSubmit(j, file)

\* The upload answers 2xx with JSON: progress 75 and the process request.
HeroUploadSucceeded(j) ==
    /\ app = "hero"
    /\ pc[j] = "uploading"
    /\ upOutcome' = [upOutcome EXCEPT ![j] = "ok"]
    /\ HeroSetProgress(j, <<75>>)
    /\ pc' = [pc EXCEPT ![j] = "processing"]
    /\ UNCHANGED <<app, callVars, scriptVars, uploading, heroResults,
                   lastAlert, timers, results, procOutcome, clock>>

\* The upload fetch is rejected (or its body is not JSON, which rejects the
\* same way), or the status is not 2xx (throw new Error): the catch block.
HeroUploadFailed(j, outcome, stamp) ==
    /\ app = "hero"
    /\ pc[j] = "uploading"
    /\ upOutcome' = [upOutcome EXCEPT ![j] = outcome]
    /\ HeroCatch(j, stamp)
    /\ UNCHANGED <<app, callVars, scriptVars, procOutcome, clock>>

\* The process request answers with a JSON body, whatever its status:
\* progress 100, setResults(processData), the alert, and the finally block.
HeroProcessAnswered(j, outcome, processData) ==
    /\ app = "hero"
    /\ pc[j] = "processing"
    /\ procOutcome' = [procOutcome EXCEPT ![j] = outcome]
    /\ HeroSetProgress(j, <<100>>)
    /\ heroResults' = Some(processData)
    /\ lastAlert' = "analysis_complete"
    /\ HeroFinally(j)
    /\ UNCHANGED <<app, callVars, scriptVars, results, upOutcome, clock>>

HeroProcessSucceeded(j) ==
    \E processData \in LivePayloads(DocIdOf(j)) :
        HeroProcessAnswered(j, "ok", processData)

HeroProcessHttpError(j) == HeroProcessAnswered(j, "http_error", ErrorBody)

\* The process fetch is rejected or its body is not JSON: the catch block.
HeroProcessFailed(j, outcome, stamp) ==
    /\ app = "hero"
    /\ pc[j] = "processing"
    /\ procOutcome' = [procOutcome EXCEPT ![j] = outcome]
    /\ HeroCatch(j, stamp)
    /\ UNCHANGED <<app, callVars, scriptVars, upOutcome, clock>>

\* setTimeout(() => setProcessingProgress(0), 1000) of the finally block.
HeroResetTimer(j) ==
    /\ app = "hero"
    /\ Due(j, "reset")
    /\ processingProgress' = 0
    /\ timers' = Fired(j, "reset")
    /\ UNCHANGED <<app, callVars, scriptVars, uploading, heroResults,
                   lastAlert, pc, results, stages, upOutcome, procOutcome,
                   clock>>

Stamps == 1..MaxStamp

HeroSubmits(j) ==
    \/ \E file \in Files : Hero_handleDrop(j, file)
    \/ \E file \in Files : Hero_handleFileSelect(j, file)

HeroCallbacks ==
    \/ \E j \in Jobs : HeroUploadSucceeded(j)
    \/ \E j \in Jobs, o \in {"http_error", "network_error"}, t \in Stamps :
          HeroUploadFailed(j, o, t)
    \/ \E j \in Jobs : HeroProcessSucceeded(j)
    \/ \E j \in Jobs : HeroProcessHttpError(j)
    \/ \E j \in Jobs, o \in ProcessFailures, t \in Stamps :
          HeroProcessFailed(j, o, t)
    \/ \E j \in Jobs : HeroResetTimer(j)

(* ---------------------------------------------------------- specifications *)
\* What the user can do: submit a document through one of the input paths.
UserNext == \E j \in Jobs : ScriptSubmit(j) \/ HeroSubmits(j)

Next == UserNext \/ ScriptCallbacks \/ HeroCallbacks \/ Tick

Spec == Init /\ [][Next]_vars

\* A session of the main script alone.
ScriptNext == (\E j \in Jobs : ScriptSubmit(j)) \/ ScriptCallbacks \/ Tick

\* The freshly loaded page of the main script.
ScriptLoaded == Init /\ app = "script"

\* The timer callbacks of the main script.
TimerCallbacks ==
    \E j \in Jobs :
        \/ ElaTimer(j) \/ OcrTimer(j) \/ MetaTimer(j) \/ FinalTimer(j)
        \/ DisplayTimer(j) \/ ErrorTimer(j)

\* The event loop runs a timer callback while one is due, and time passes
\* while none is.  Nothing makes a network request settle.
FairSpec ==
    /\ ScriptLoaded
    /\ [][ScriptNext]_vars
    /\ WF_vars(Tick)
    /\ WF_vars(TimerCallbacks)

\* One job observed against its wall clock.
BudgetNext ==
    \/ ScriptSubmit(1)
    \/ HeroSubmits(1)
    \/ ScriptCallbacks
    \/ HeroCallbacks
    \/ TickClock

BudgetSpec == Init /\ [][BudgetNext]_vars

(* ---------------------------------------------------- function-level runs *)
\* A function-level run makes one call on a freshly loaded page, with an
\* argument drawn from a set that covers the cases of the function.
TestTypes == validTypes \cup {"text/plain", "image/gif", ""}
TestExts == {"pdf", "png", "jpg", "jpeg", "PDF", "JPG", "Png", "JpEg",
             "txt", "gif", ""}
TestSizes == {0, maxSize - 1, maxSize, maxSize + 1}
TestFiles == [type : TestTypes, ext : TestExts, size : TestSizes]

\* Findings lists of a signal: with and without a region, in both orders.
Located ==
    [region |-> <<10, 20, 30, 40>>, confidence |-> 90,
     description |-> "located"]
Unlocated == [confidence |-> 60, description |-> "unlocated"]
TestFindings == {<<>>, <<Located>>, <<Unlocated>>, <<Unlocated, Located>>}
TestSignals ==
    [ela : [confidence : {85}, findings : TestFindings],
     ocr : [confidence : {75}, findings : TestFindings],
     metadata : [confidence : {95}, findings : TestFindings]]

\* Clicks on the heatmap canvas: points on, beside and between the borders of
\* the regions of the displayed result, on a canvas shown at its own size, at
\* half of it and at twice of it.
ClickXs == {50, 75, 99, 100, 150, 250, 300, 301, 500}
ClickYs == {75, 80, 90, 149, 150, 160, 180, 181, 230, 260, 370, 500}
Scales == {[num |-> 1, den |-> 1], [num |-> 2, den |-> 1],
           [num |-> 1, den |-> 2]}
Clicks == [x : ClickXs, y : ClickYs, sx : Scales, sy : Scales]

\* The page of the main script after its first job ran to the end and
\* displayResults showed its result.
ResultDisplayed ==
    LET r == generateMockResults(DocIdOf(1))
    IN /\ app = "script"
       /\ currentDocumentId = DocIdOf(1)
       /\ detectionResults = Some(r)
       /\ heatmapRegions = updateHeatmap(r.signals)
       /\ progress = 100
       /\ processingShown = FALSE
       /\ lastAlert = "none"
       /\ uploading = FALSE
       /\ heroResults = None
       /\ processingProgress = 0
       /\ pc = [j \in Jobs |-> IF j = 1 THEN "done" ELSE "idle"]
       /\ timers = <<>>
       /\ results = [j \in Jobs |-> IF j = 1 THEN Some(r) ELSE None]
       /\ stages = [j \in Jobs |->
                       IF j = 1 THEN <<10, 25, 33, 66, 80, 90, 100>> ELSE <<>>]
       /\ upOutcome = [j \in Jobs |-> IF j = 1 THEN "ok" ELSE "pending"]
       /\ procOutcome = [j \in Jobs |-> IF j = 1 THEN "json" ELSE "pending"]
       /\ clock = 0

\* The page of the main script while the upload of its first job is pending.
UploadPending ==
    /\ app = "script"
    /\ currentDocumentId = NullId
    /\ detectionResults = None
    /\ heatmapRegions = <<>>
    /\ progress = 10
    /\ processingShown = TRUE
    /\ lastAlert = "none"
    /\ uploading = FALSE
    /\ heroResults = None
    /\ processingProgress = 0
    /\ pc = [j \in Jobs |-> IF j = 1 THEN "uploading" ELSE "idle"]
    /\ timers = <<>>
    /\ results = [j \in Jobs |-> None]
    /\ stages = [j \in Jobs |-> IF j = 1 THEN <<10>> ELSE <<>>]
    /\ upOutcome = [j \in Jobs |-> "pending"]
    /\ procOutcome = [j \in Jobs |-> "pending"]
    /\ clock = 0

\* The types updateSignalDisplay creates the three signal cards with.
CardTypes == {"ela", "ocr", "meta"}

CallsOf(fn, args) == {Some([fn |-> fn, arg |-> a]) : a \in args}

\* The function called and its argument.
Fn == call[1].fn
Arg == call[1].arg

CallInit ==
    /\ ret = None
    /\ regionModal = None
    /\ signalModal = None
    /\ download = None
    /\ \/ PageLoaded /\ app = "script"
          /\ call \in CallsOf("validateFile", TestFiles)
       \/ PageLoaded /\ app = "script"
          /\ call \in CallsOf("processFile", TestFiles)
       \/ PageLoaded /\ app = "hero"
          /\ call \in CallsOf("Hero.handleDrop", TestFiles)
       \/ PageLoaded /\ app = "script"
          /\ call \in CallsOf("updateConfidenceDisplay", 0..100)
       \/ PageLoaded /\ app = "hero"
          /\ call \in CallsOf("Hero.confidenceClass", 0..100)
       \/ PageLoaded /\ app = "script"
          /\ call \in CallsOf("updateHeatmap", TestSignals)
       \/ ((PageLoaded /\ app = "script") \/ ResultDisplayed)
          /\ call \in CallsOf("handleHeatmapClick", Clicks)
       \/ ((PageLoaded /\ app = "script") \/ UploadPending \/ ResultDisplayed)
          /\ call \in CallsOf("generateForensicReport", Stamps)
       \/ ResultDisplayed
          /\ call \in CallsOf("showSignalDetails", CardTypes)

\* validateFile(file) of the main script is called and returns.
Call_validateFile ==
    /\ Fn = "validateFile"
    /\ ret = None
    /\ ret' = Some(validateFile(Arg))
    /\ UNCHANGED <<app, call, regionModal, signalModal, download, scriptVars,
                   heroVars,
                   lastAlert, jobVars, clock>>

\* processFile(file) of the main script is called, up to its fetch.
Call_processFile == Fn = "processFile" /\ processFile(1, Arg)

\* handleDrop of the Hero component is called, up to its first await.
Call_Hero_handleDrop == Fn = "Hero.handleDrop" /\ Hero_handleDrop(1, Arg)

\* updateConfidenceDisplay(confidence, uncertainty) is called: the value
\* observed is the tier text it shows.
Call_updateConfidenceDisplay ==
    /\ Fn = "updateConfidenceDisplay"
    /\ ret = None
    /\ ret' = Some(confidenceText(Arg))
    /\ UNCHANGED <<app, call, regionModal, signalModal, download, scriptVars,
                   heroVars,
                   lastAlert, jobVars, clock>>

\* The Hero component renders results with overall_confidence Arg: the value
\* observed is the class of the confidence figure.
Call_Hero_confidenceClass ==
    /\ Fn = "Hero.confidenceClass"
    /\ ret = None
    /\ ret' = Some(Hero_confidenceClass(Arg))
    /\ UNCHANGED <<app, call, regionModal, signalModal, download, scriptVars,
                   heroVars,
                   lastAlert, jobVars, clock>>

\* updateHeatmap(signals) is called and returns (undefined).
Call_updateHeatmap ==
    /\ Fn = "updateHeatmap"
    /\ ret = None
    /\ heatmapRegions' = updateHeatmap(Arg)
    /\ ret' = Some("undefined")
    /\ UNCHANGED <<app, call, regionModal, signalModal, download,
                   currentDocumentId,
                   detectionResults, progress,
                   processingShown, heroVars, lastAlert, jobVars, clock>>

\* The user clicks on the heatmap canvas.
Call_handleHeatmapClick ==
    /\ Fn = "handleHeatmapClick"
    /\ ret = None
    /\ handleHeatmapClick(Arg)
    /\ ret' = Some("undefined")

\* The user clicks the report button; Arg is what the clock shows.
Call_generateForensicReport ==
    /\ Fn = "generateForensicReport"
    /\ ret = None
    /\ generateForensicReport(Arg)
    /\ ret' = Some("undefined")

\* The user clicks a signal card of the displayed result; Arg is the type
\* the card was created with.  The value observed is how the handler ended.
Call_showSignalDetails ==
    /\ Fn = "showSignalDetails"
    /\ ret = None
    /\ showSignalDetails(Arg)
    /\ ret' = Some(IF showSignalDetails_throws(Arg)
                   THEN "TypeError" ELSE "undefined")

CallNext ==
    \/ Call_showSignalDetails
    \/ Call_validateFile
    \/ Call_generateForensicReport
    \/ Call_handleHeatmapClick
    \/ Call_updateHeatmap
    \/ Call_updateConfidenceDisplay
    \/ Call_Hero_confidenceClass
    \/ Call_processFile
    \/ Call_Hero_handleDrop

CallSpec == CallInit /\ [][CallNext]_vars

(* -------------------------------------------------------------- vocabulary *)
\* Job j is in a non-terminal stage: its upload or its analysis is running.
Live(j) == pc[j] \in {"uploading", "analysing", "processing"}

\* Job j took the error path of processFile.
Failed(j) == pc[j] \in {"errorPending", "failed"}

\* Job j completed: its result is ready (DONE).
Completed(j) == pc[j] \in {"displayPending", "done", "ended"}

\* Every callback of job j has run.
Settled(j) == pc[j] \in {"done", "failed", "ended"}

\* The result of job j came from the fallback path, not from the service.
FromFallback(j) ==
    \/ upOutcome[j] \in UploadFailures
    \/ procOutcome[j] \in ProcessFailures

\* r has the verdict and confidence fields of an AggregateResult.
ValidPair(r) ==
    /\ "verdict" \in DOMAIN r
    /\ r.verdict \in {"AUTHENTIC", "SUSPICIOUS", "TAMPERED"}
    /\ \/ "confidence" \in DOMAIN r /\ r.confidence \in 0..100
       \/ "overall_confidence" \in DOMAIN r /\ r.overall_confidence \in 0..100

\* The result the page displays, as an optional value.
Displayed == IF app = "script" THEN detectionResults ELSE heroResults

Last(seq) == seq[Len(seq)]
Front(seq) == SubSeq(seq, 1, Len(seq) - 1)
NonDecreasing(seq) == \A i \in 1..(Len(seq) - 1) : seq[i] <= seq[i + 1]
IsPrefix(seq, full) ==
    Len(seq) <= Len(full) /\ \A i \in 1..Len(seq) : seq[i] = full[i]

\* A later document was submitted after job j.
Superseded(j) == \E k \in Jobs : k > j /\ pc[k] \notin {"idle", "rejected"}

\* The step is a callback of job j.
CallbackOf(j) == pc'[j] # pc[j] \/ stages'[j] # stages[j]

(* ------------------------------------------------------------------ claims *)
\* C1: when the upload request answers with a non-2xx status, the job does
\* not take a hard-failure path, and once all its callbacks have run a result
\* with a valid verdict/confidence pair is displayed.
C1_UploadFailureFallsBack ==
    \A j \in Jobs :
        upOutcome[j] = "http_error" =>
            /\ ~Failed(j)
            /\ Settled(j) => Displayed # None /\ ValidPair(Displayed[1])

\* C2: every result a job of the main script produced carries a source tag,
\* SYNTHETIC when it came from the fallback path and LIVE when the service
\* answered; and the result the Hero component stores is tagged too.
C2_SourceTagged ==
    /\ \A j \in Jobs :
          results[j] # None =>
              /\ "source" \in DOMAIN results[j][1]
              /\ results[j][1].source =
                    IF FromFallback(j) THEN "SYNTHETIC" ELSE "LIVE"
    /\ heroResults # None =>
          /\ "source" \in DOMAIN heroResults[1]
          /\ heroResults[1].source \in {"SYNTHETIC", "LIVE"}

\* C3: for every job the progress values it sets during its lifecycle are
\* non-decreasing, and 100 is set only when the job is DONE.
C3_ProgressNonDecreasing ==
    \A j \in Jobs :
        /\ NonDecreasing(stages[j])
        /\ (\E i \in 1..Len(stages[j]) : stages[j][i] = 100) => Completed(j)

\* The progress values of a complete run of the main script.
FullStages == <<10, 25, 33, 66, 80, 90, 100>>

\* C4: a job of the main script whose upload succeeded reports upload
\* complete, ELA, OCR, metadata, final and done once each and in this order,
\* however the network requests and the other jobs are interleaved.
C4_StagesInOrder ==
    app = "script" =>
        \A j \in Jobs :
            upOutcome[j] = "ok" =>
                /\ IsPrefix(stages[j], FullStages)
                /\ pc[j] \in {"displayPending", "done"} => stages[j] = FullStages

\* C4 witness: two overlapping jobs both ran to completion.
C4_Witness ==
    /\ app = "script"
    /\ \A j \in Jobs : pc[j] = "done" /\ stages[j] = FullStages

\* C5: once a later document has been submitted, no callback of an earlier
\* job changes the progress display, the current document id or the
\* displayed results.
C5_StaleCallbacksDiscarded ==
    [][\A j \in Jobs :
          (app = "script" /\ Superseded(j) /\ CallbackOf(j)) =>
              UNCHANGED <<progress, currentDocumentId, detectionResults>>]_vars

\* The job submitted last.
LastJob == CHOOSE j \in Jobs : pc[j] \notin {"idle", "rejected"} /\ ~Superseded(j)

\* C6: when every submitted job has completed and every callback has run,
\* the displayed result is the result of the job submitted last and carries
\* the document id of that job's upload.
C6_DisplayedIsLatest ==
    (/\ app = "script"
     /\ \E j \in Jobs : pc[j] = "done"
     /\ \A j \in Jobs : pc[j] \in {"idle", "rejected", "done"}) =>
        /\ detectionResults = results[LastJob]
        /\ detectionResults[1].document_id = DocIdOf(LastJob)

\* A callback of job j runs.
JobStep(j) == (ScriptCallbacks \/ HeroCallbacks) /\ CallbackOf(j)

\* Job j has been discarded: none of its callbacks is pending or can run.
Discarded(j) ==
    /\ \A i \in 1..Len(timers) : timers[i].job # j
    /\ ~ENABLED JobStep(j)

\* C7: at most one job is live at any time: when a later document has been
\* submitted while a job is in a non-terminal stage, that job is discarded.
C7_AtMostOneLive ==
    \/ Cardinality({j \in Jobs : Live(j)}) <= 1
    \/ \A j \in Jobs : (Live(j) /\ Superseded(j)) => Discarded(j)

\* C8: a job that has not reached DONE within the budget is FAILED.
C8_FailsAfterBudget == clock > Budget => ~Live(1)

\* A step by which the user makes job j fail.
CancelStep(j) == UserNext /\ Failed(j)'

\* C9: at every non-terminal stage of a job the caller can cancel it, which
\* makes the job FAILED.
C9_CancelPossible == \A j \in Jobs : Live(j) => ENABLED CancelStep(j)

\* C10: in the main script a failed process request is absorbed: the job
\* does not take the error path, it resolves with a substitute result and
\* progress 100, and its delayed callback displays a result.
C10_ProcessFailureAbsorbed ==
    app = "script" =>
        \A j \in Jobs :
            procOutcome[j] \in ProcessFailures =>
                /\ ~Failed(j)
                /\ pc[j] \in {"displayPending", "done"}
                /\ results[j] # None
                /\ Last(stages[j]) = 100
                /\ HasTimer(j, "display") \/ pc[j] = "done"
                /\ pc[j] = "done" => detectionResults # None

\* C10 witness: a job whose process request failed has displayed its result.
C10_Witness ==
    /\ app = "script"
    /\ \E j \in Jobs :
          /\ procOutcome[j] \in ProcessFailures
          /\ pc[j] = "done"
          /\ detectionResults = results[j]

\* r has the fields of an AggregateResult the Hero component renders: a
\* verdict and an overall confidence in 0..100.
AggregateShaped(r) ==
    /\ "verdict" \in DOMAIN r
    /\ "overall_confidence" \in DOMAIN r
    /\ r.overall_confidence \in 0..100

\* C11: whatever the process endpoint answers, the results the Hero component
\* stores have a verdict and an overall confidence in 0..100 (a non-2xx
\* answer takes the fallback path).
C11_HeroResultsShaped ==
    (app = "hero" /\ heroResults # None) => AggregateShaped(heroResults[1])

\* The three signals of a result.
SignalKinds == {"ela", "ocr", "metadata"}

\* The number of pending displayResults callbacks of job j.
DisplayTimers(j) ==
    Cardinality({i \in 1..Len(timers) :
                    timers[i].job = j /\ timers[i].kind = "display"})

\* C12: a job of the main script that completes hands its result, with the
\* three signals ELA, OCR and METADATA, to displayResults exactly once: one
\* displayResults callback is pending from completion until it runs, none
\* remains or can run afterwards, and what is displayed is the result a
\* completed job resolved with, all three signals present.
C12_SignalsDisplayedOnce ==
    app = "script" =>
        /\ \A j \in Jobs :
              /\ DisplayTimers(j) = IF pc[j] = "displayPending" THEN 1 ELSE 0
              /\ pc[j] = "done" => ~ENABLED DisplayTimer(j)
              /\ pc[j] \in {"displayPending", "done"} =>
                    /\ results[j] # None
                    /\ DOMAIN results[j][1].signals = SignalKinds
        /\ detectionResults # None =>
              /\ \E j \in Jobs : pc[j] = "done" /\ detectionResults = results[j]
              /\ DOMAIN detectionResults[1].signals = SignalKinds

\* C12 witness: two overlapping jobs completed and each one's result was
\* displayed; the second display is on screen.
C12_Witness ==
    /\ app = "script"
    /\ \A j \in Jobs : pc[j] = "done" /\ DisplayTimers(j) = 0
    /\ DOMAIN detectionResults[1].signals = SignalKinds

\* The file types and name endings of the three document classes, as the
\* contract states them.
AcceptedMime == {"application/pdf", "image/png", "image/jpeg", "image/jpg"}
AcceptedEndings == {"pdf", "png", "jpg", "jpeg"}

TypeMatches(file) ==
    \/ file.type \in AcceptedMime
    \/ \E e \in AcceptedEndings : Lower(file.ext) = e

\* C13: validateFile of the main script accepts a file exactly when its
\* declared type or its name ending is one of PDF/PNG/JPEG and its size is
\* at most 16,777,216 bytes.
C13_ValidateFileAccepts ==
    (call # None /\ Fn = "validateFile" /\ ret # None) =>
        (ret[1] <=> (TypeMatches(Arg) /\ Arg.size <= 16777216))

\* C13 witness: a file of exactly 16,777,216 bytes that only its name ending
\* qualifies was accepted.
C13_Witness ==
    /\ call # None /\ Fn = "validateFile"
    /\ Arg.size = 16777216 /\ Arg.type = "" /\ Arg.ext = "JpEg"
    /\ ret = Some(TRUE)

\* The error variant an alert of the two front ends tells the user, if any.
VariantOf(alert) ==
    CASE alert = "invalid_type" -> "UnsupportedType"
      [] alert = "too_large" -> "TooLarge"
      [] OTHER -> "unspecified"

\* C14: a rejected file is reported with its cause: UnsupportedType when
\* neither the declared type nor the name ending matches, TooLarge when the
\* size exceeds the limit (either one when both hold).
C14_RejectionCauseReported ==
    (call # None /\ Fn \in {"processFile", "Hero.handleDrop"}
                 /\ pc[1] = "rejected") =>
        \/ ~TypeMatches(Arg) /\ VariantOf(lastAlert) = "UnsupportedType"
        \/ Arg.size > 16777216 /\ VariantOf(lastAlert) = "TooLarge"

\* The step rejects the file submitted as number j.
RejectionOf(j) == pc[j] = "idle" /\ pc'[j] = "rejected"

\* C15: a file that fails validation creates no job.  The rejecting step
\* issues no request and registers no timer, starts neither the processing
\* section nor the progress display, and leaves the current document id, the
\* displayed results, the heatmap regions and every running job as they
\* were; and nothing ever runs for the rejected submission afterwards.
C15_RejectedFileCreatesNoJob ==
    [][\A j \in Jobs :
          /\ RejectionOf(j) =>
                /\ UNCHANGED <<scriptVars, heroVars, timers, results, stages,
                               upOutcome, procOutcome>>
                /\ \A k \in Jobs \ {j} : pc'[k] = pc[k]
          /\ pc[j] = "rejected" =>
                /\ pc'[j] = "rejected"
                /\ stages'[j] = <<>> /\ upOutcome'[j] = "pending"]_vars

\* C15 witness: a file was rejected while an earlier job was running (a job
\* that is still live was live when the later submission was rejected).
C15_Witness ==
    \E j, k \in Jobs :
        /\ k < j
        /\ pc[j] = "rejected"
        /\ Live(k)
        /\ stages[k] # <<>>

\* The verdict table of the contract.
VerdictTable(c) ==
    IF c < 50 THEN "AUTHENTIC"
    ELSE IF c <= 79 THEN "SUSPICIOUS"
    ELSE "TAMPERED"

\* The tier a tier text or a tier class of the two front ends stands for.
TierShown(shown) ==
    CASE shown \in {"HIGH CONFIDENCE - Document likely tampered",
                     "text-red-600"} -> "TAMPERED"
      [] shown \in {"MEDIUM CONFIDENCE - Document suspicious",
                     "text-yellow-600"} -> "SUSPICIOUS"
      [] shown \in {"LOW CONFIDENCE - Document likely authentic",
                     "text-green-600"} -> "AUTHENTIC"

\* C16: for every overall confidence in 0..100 the tier the client derives
\* is the one of the verdict table: AUTHENTIC below 50, SUSPICIOUS from 50
\* to 79, TAMPERED from 80.
C16_TierFollowsTable ==
    (call # None /\ Fn \in {"updateConfidenceDisplay", "Hero.confidenceClass"}
                 /\ ret # None) =>
        TierShown(ret[1]) = VerdictTable(Arg)

\* C17: in every result the client displays, the verdict is the tier of the
\* verdict table for the result's overall confidence, so it agrees with the
\* tier text shown next to it.  (For the Hero component the results the
\* client fabricates itself are checked.)
C17_VerdictMatchesConfidence ==
    /\ detectionResults # None =>
          /\ detectionResults[1].verdict =
                VerdictTable(detectionResults[1].confidence)
          /\ detectionResults[1].verdict =
                TierShown(confidenceText(detectionResults[1].confidence))
    /\ \A t \in Stamps :
          heroResults = Some(mockResults(t)) =>
              heroResults[1].verdict =
                  VerdictTable(heroResults[1].overall_confidence)

\* The confidences of the three signals of result r, in the order ELA, OCR,
\* METADATA.
SignalConfidences(r) ==
    << r.signals.ela.confidence, r.signals.ocr.confidence,
       r.signals.metadata.confidence >>

\* The mean of three integers, rounded to the nearest integer (half up).
RoundedMean(t) == (2 * (t[1] + t[2] + t[3]) + 3) \div 6

\* C18: a result of the main script whose signal confidences are ELA 85,
\* OCR 75 and METADATA 95 has the overall confidence 85, their rounded mean,
\* and the verdict TAMPERED.
C18_ExampleAggregate ==
    \A j \in Jobs :
        (results[j] # None /\ SignalConfidences(results[j][1]) = <<85, 75, 95>>) =>
            /\ results[j][1].confidence = RoundedMean(<<85, 75, 95>>)
            /\ results[j][1].confidence = 85
            /\ results[j][1].verdict = "TAMPERED"

\* What aggregation yields in result r: overall confidence, uncertainty and
\* verdict.
AggregateOf(r) ==
    << IF "confidence" \in DOMAIN r THEN r.confidence ELSE r.overall_confidence,
       r.uncertainty, r.verdict >>

\* C19: aggregation is deterministic.  Two results the client produced from
\* identical signal confidences have the same overall confidence,
\* uncertainty and verdict, whatever the current document id was, however
\* the service answered and whether an earlier job ran; the same holds for
\* the results the Hero component fabricates at different times.
C19_AggregationDeterministic ==
    /\ \A j, k \in Jobs :
          (/\ results[j] # None
           /\ results[k] # None
           /\ SignalConfidences(results[j][1]) = SignalConfidences(results[k][1]))
          => AggregateOf(results[j][1]) = AggregateOf(results[k][1])
    /\ \A s, t \in Stamps :
          SignalConfidences(mockResults(s)) = SignalConfidences(mockResults(t))
          => AggregateOf(mockResults(s)) = AggregateOf(mockResults(t))

\* C19 witness: two jobs of one session produced their results under
\* different document ids and different answers of the process endpoint.
C19_Witness ==
    /\ app = "script"
    /\ results[1] # None /\ results[2] # None
    /\ results[1][1].document_id # results[2][1].document_id
    /\ procOutcome[1] = "json" /\ procOutcome[2] = "network_error"
    /\ SignalConfidences(results[1][1]) = SignalConfidences(results[2][1])

\* Finding f of signal sig is an entry of heatmapRegions.
Indexed(f, sig) ==
    \E i \in 1..Len(heatmapRegions) :
        /\ heatmapRegions[i].signal = sig
        /\ heatmapRegions[i].region = f.region
        /\ heatmapRegions[i].confidence = f.confidence
        /\ heatmapRegions[i].description = f.description

RegionOfSomeFinding(region, r) ==
    \E sig \in SignalKinds :
        \E n \in 1..Len(r.signals[sig].findings) :
            LET f == r.signals[sig].findings[n]
            IN "region" \in DOMAIN f /\ f.region = region

\* C21: once a result is displayed, every entry of heatmapRegions has the
\* region of some finding of that result.
C21_IndexFromFindings ==
    detectionResults # None =>
        \A i \in 1..Len(heatmapRegions) :
            RegionOfSomeFinding(heatmapRegions[i].region, detectionResults[1])

\* The colour tier table of the contract.
ColorTierTable(c) ==
    IF c >= 80 THEN "high"
    ELSE IF c >= 60 THEN "medium"
    ELSE "low"

\* The tier a fill colour of the heatmap stands for: red, yellow, green.
TierOfColor(color) ==
    CASE color = "rgba(220, 53, 69, 0.3)" -> "high"
      [] color = "rgba(255, 193, 7, 0.3)" -> "medium"
      [] OTHER -> "low"

\* C22: the colour of every heatmap entry that carries one is the tier of
\* its finding's confidence: high from 80, medium from 60 to 79, low below
\* 60, whichever signal produced the finding.
C22_ColorFromConfidence ==
    \A i \in 1..Len(heatmapRegions) :
        "color" \in DOMAIN heatmapRegions[i] =>
            TierOfColor(heatmapRegions[i].color)
                = ColorTierTable(heatmapRegions[i].confidence)

\* Entry e's bounding box contains the click scaled to canvas coordinates:
\* strictly inside it, or inside it or on its border.
StrictlyInside(e, p) ==
    /\ p.x * p.sx.num > e.region[1] * p.sx.den
    /\ p.x * p.sx.num < (e.region[1] + e.region[3]) * p.sx.den
    /\ p.y * p.sy.num > e.region[2] * p.sy.den
    /\ p.y * p.sy.num < (e.region[2] + e.region[4]) * p.sy.den

InsideOrOnBorder(e, p) ==
    /\ p.x * p.sx.num >= e.region[1] * p.sx.den
    /\ p.x * p.sx.num <= (e.region[1] + e.region[3]) * p.sx.den
    /\ p.y * p.sy.num >= e.region[2] * p.sy.den
    /\ p.y * p.sy.num <= (e.region[2] + e.region[4]) * p.sy.den

\* A heatmap click has been handled.
Clicked == call # None /\ Fn = "handleHeatmapClick" /\ ret # None

\* C23: a heatmap click selects the first entry, in insertion order, whose
\* bounding box contains the click scaled to canvas coordinates.  The entry
\* shown contains the point and no entry inserted before it does; a point
\* strictly inside some entry selects one; a point inside no entry selects
\* nothing.
C23_FirstContainingRegion ==
    Clicked =>
        /\ regionModal # None =>
              \E i \in 1..Len(heatmapRegions) :
                  /\ regionModal[1] = heatmapRegions[i]
                  /\ InsideOrOnBorder(heatmapRegions[i], Arg)
                  /\ \A k \in 1..(i - 1) :
                        ~InsideOrOnBorder(heatmapRegions[k], Arg)
        /\ (\E i \in 1..Len(heatmapRegions) :
                StrictlyInside(heatmapRegions[i], Arg)) => regionModal # None
        /\ (\A i \in 1..Len(heatmapRegions) :
                ~InsideOrOnBorder(heatmapRegions[i], Arg)) => regionModal = None

\* C23 witness: on a canvas shown at half its size, a click strictly inside
\* both the first ELA region and the first OCR region selected the ELA one,
\* which was inserted first.
C23_Witness ==
    /\ Clicked
    /\ Len(heatmapRegions) >= 3
    /\ Arg.sx.num = 2 /\ Arg.sy.num = 2
    /\ StrictlyInside(heatmapRegions[1], Arg)
    /\ StrictlyInside(heatmapRegions[3], Arg)
    /\ heatmapRegions[3].signal = "ocr"
    /\ regionModal = Some(heatmapRegions[1])

\* The click is at (x, y) on a canvas shown at its own size.
ClickAt(x, y) ==
    /\ Arg.x = x /\ Arg.y = y
    /\ Arg.sx = [num |-> 1, den |-> 1] /\ Arg.sy = [num |-> 1, den |-> 1]

\* C24: with the displayed result holding the ELA finding of region
\* [100,150,200,80] and confidence 90, at scale 1 a click at (150,180)
\* selects that finding and a click at (500,500) selects nothing.
C24_ExampleClicks ==
    (Clicked /\ detectionResults # None) =>
        LET f == detectionResults[1].signals.ela.findings[1]
        IN /\ f.region = <<100, 150, 200, 80>> /\ f.confidence = 90
           /\ ClickAt(150, 180) =>
                 /\ regionModal # None
                 /\ regionModal[1].signal = "ela"
                 /\ regionModal[1].region = f.region
                 /\ regionModal[1].confidence = f.confidence
                 /\ regionModal[1].description = f.description
           /\ ClickAt(500, 500) => regionModal = None

\* C24 witness: the click at (150,180) was handled on the displayed result.
C24_Witness ==
    /\ Clicked /\ detectionResults # None
    /\ ClickAt(150, 180)
    /\ regionModal # None

\* The place of a signal in the order ELA, OCR, metadata.
SignalRank(sig) ==
    CASE sig = "ela" -> 1
      [] sig = "ocr" -> 2
      [] OTHER -> 3

\* C25: the heatmap index is ordered by signal: every ELA entry comes before
\* every OCR entry, and every OCR entry before every metadata entry.
C25_IndexOrderedBySignal ==
    \A i, k \in 1..Len(heatmapRegions) :
        i < k => SignalRank(heatmapRegions[i].signal)
                    <= SignalRank(heatmapRegions[k].signal)

\* C26: hit-testing is a pure query: handling a heatmap click, whether it
\* hits a region or not, leaves heatmapRegions, detectionResults and the
\* current document id unchanged.
C26_ClickIsPureQuery ==
    [][(call # None /\ Fn = "handleHeatmapClick") =>
          UNCHANGED <<heatmapRegions, detectionResults, currentDocumentId>>]_vars

\* C26 witness: a click that hit the sample region no finding overlaps was
\* handled, and the seven entries of the index are still there.
C26_Witness ==
    /\ Clicked
    /\ regionModal # None
    /\ regionModal[1].region = <<200, 350, 100, 40>>
    /\ Len(heatmapRegions) = 7

\* C27: the heatmap index is rebuilt whenever a result is displayed: after
\* any number of displayResults calls heatmapRegions is the index one rebuild
\* makes from the result displayed last, with nothing accumulated from the
\* results displayed before.
C27_IndexRebuiltOnDisplay ==
    detectionResults # None =>
        heatmapRegions = updateHeatmap(detectionResults[1].signals)

\* C27 witness: displayResults ran twice, once for each of two jobs, and
\* the index has the length of a single rebuild.
C27_Witness ==
    /\ app = "script"
    /\ \A j \in Jobs : pc[j] = "done"
    /\ detectionResults # None
    /\ Len(heatmapRegions) = Len(updateHeatmap(detectionResults[1].signals))

\* A report was requested and the handler has returned.
Reported == call # None /\ Fn = "generateForensicReport" /\ ret # None

\* C28: requesting a report while no result is present produces no report
\* artifact, not even a partial one, and leaves every job, the displayed
\* results, the heatmap regions and the progress display unchanged.
C28_NoResultNoReport ==
    [][(call # None /\ Fn = "generateForensicReport"
                    /\ detectionResults = None) =>
          /\ download' = None
          /\ UNCHANGED <<jobVars, scriptVars, heroVars>>]_vars

\* C28 witness: a report was requested while the upload of a job was
\* pending, and the request was refused.
C28_Witness ==
    /\ Reported
    /\ detectionResults = None
    /\ pc[1] = "uploading"
    /\ lastAlert = "no_results"
    /\ download = None

\* Reading a report back.  A decimal numeral is read as its number, and a
\* field is looked up by the label its line starts with (the first such
\* line).
RECURSIVE FromDigits(_)
FromDigits(d) ==
    IF d = <<>> THEN 0 ELSE 10 * FromDigits(Front(d)) + Last(d)

HasLabel(line, label) == "label" \in DOMAIN line /\ line.label = label

LineOf(report, label) ==
    report[CHOOSE i \in 1..Len(report) :
              /\ HasLabel(report[i], label)
              /\ \A k \in 1..(i - 1) : ~HasLabel(report[k], label)]

ParseReport(report) ==
    [confidence |-> FromDigits(LineOf(report, "Confidence: ").value),
     uncertainty |-> FromDigits(LineOf(report, "Uncertainty: ").value),
     verdict |-> LineOf(report, "Verdict: ").value]

\* C29: reading back the report the page downloads recovers the overall
\* confidence, the uncertainty and the verdict of the reported result.
C29_ReportRoundTrip ==
    (Reported /\ download # None) =>
        ParseReport(download[1].content) =
            [confidence |-> detectionResults[1].confidence,
             uncertainty |-> detectionResults[1].uncertainty,
             verdict |-> detectionResults[1].verdict]

\* C29 witness: a report of the displayed result was downloaded, and its
\* Confidence line carries a numeral of two digits.
C29_Witness ==
    /\ Reported
    /\ download # None
    /\ Len(LineOf(download[1].content, "Confidence: ").value) = 2
    /\ lastAlert = "report_downloaded"

\* Two report lines are the same line.
SameLine(a, b) ==
    /\ DOMAIN a = DOMAIN b
    /\ IF "label" \in DOMAIN a
       THEN a.label = b.label /\ a.suffix = b.suffix /\ a.value = b.value
       ELSE a.text = b.text

\* The lines of items occur in report, in the order of items.
RECURSIVE OccurInOrder(_, _)
OccurInOrder(items, report) ==
    IF items = <<>> THEN TRUE
    ELSE IF report = <<>> THEN FALSE
    ELSE IF SameLine(Head(items), Head(report))
         THEN OccurInOrder(Tail(items), Tail(report))
         ELSE OccurInOrder(items, Tail(report))

\* What a report of result r made at time stamp has to contain, in order.
RequiredLines(r, stamp) ==
    << Field("Document ID: ", r.document_id, ""),
       Field("Analysis Time: ", stamp, ""),
       Field("Confidence: ", ToDigits(r.confidence), "%"),
       Field("Uncertainty: ", ToDigits(r.uncertainty), "%"),
       Field("Verdict: ", r.verdict, ""),
       Field("1. ERROR LEVEL ANALYSIS (", ToDigits(r.signals.ela.confidence), "%)"),
       Text(r.signals.ela.summary),
       Field("2. TEXT INCONSISTENCY ANALYSIS (",
             ToDigits(r.signals.ocr.confidence), "%)"),
       Text(r.signals.ocr.summary),
       Field("3. METADATA FORENSICS (",
             ToDigits(r.signals.metadata.confidence), "%)"),
       Text(r.signals.metadata.summary) >>
    \o [i \in 1..Len(r.recommendations) |-> Field("* ", r.recommendations[i], "")]

\* C30: the downloaded report contains, in this order, the document id, the
\* timestamp, the overall confidence, the uncertainty, the verdict, the
\* confidence and the summary of each of the three signals and every
\* recommendation; and its file name is made of the document id of the
\* reported result and of nothing else that varies.
C30_ReportContents ==
    (Reported /\ download # None) =>
        /\ OccurInOrder(RequiredLines(detectionResults[1], Arg),
                        download[1].content)
        /\ download[1].name =
              <<"forensic_report_", detectionResults[1].document_id, ".txt">>

\* C30 witness: a report of the displayed result, with its three
\* recommendations, was downloaded at the second time of the clock.
C30_Witness ==
    /\ Reported
    /\ download # None
    /\ Arg = 2
    /\ Len(detectionResults[1].recommendations) = 3
    /\ download[1].name[2] = DocIdOf(1)

\* C31: under any interleaving of two overlapping submissions, the
\* document_id stored in a job's result is the document_id the upload
\* response of that same job returned, never the id of another job.
C31_ResultCarriesOwnId ==
    app = "script" =>
        \A j \in Jobs :
            results[j] # None => results[j][1].document_id = DocIdOf(j)

\* C32: the result processDocument resolves with does not depend on the
\* answer of the process endpoint.  Two runs made under the same current
\* document id (the id their results carry) resolve with identical results,
\* confidence, uncertainty, verdict, signals and recommendations included,
\* whether the request was answered with some JSON body or failed.
C32_ResultIgnoresResponse ==
    app = "script" =>
        \A j, k \in Jobs :
            (/\ results[j] # None
             /\ results[k] # None
             /\ results[j][1].document_id = results[k][1].document_id)
            => results[j][1] = results[k][1]

\* C32 witness: two runs resolved under the same current document id, one
\* after the endpoint answered with JSON and one after the request failed.
C32_Witness ==
    /\ app = "script"
    /\ results[1] # None /\ results[2] # None
    /\ results[1][1].document_id = results[2][1].document_id
    /\ procOutcome[1] = "json"
    /\ procOutcome[2] \in ProcessFailures
    /\ results[1][1].recommendations = results[2][1].recommendations

\* A step of job j on the error path of processFile: the .catch handler or
\* its delayed callback.
ErrorStep(j) == pc'[j] # pc[j] /\ pc'[j] \in {"errorPending", "failed"}

\* C33: when processFile takes its error path, the displayed result is
\* untouched: no step of the error path changes detectionResults or
\* heatmapRegions, displayResults is never called for that job (it has no
\* result and no display callback), and the processing section is hidden in
\* the end: the error path does not stay pending for ever, and the step that
\* ends it, the delayed callback of the .catch handler, hides the section.
C33_ErrorPathKeepsResult ==
    /\ [][\A j \in Jobs :
             (app = "script" /\ ErrorStep(j)) =>
                 UNCHANGED <<detectionResults, heatmapRegions>>]_vars
    /\ [](\A j \in Jobs :
             (app = "script" /\ Failed(j)) =>
                 results[j] = None /\ ~HasTimer(j, "display"))
    /\ [][\A j \in Jobs :
             (app = "script" /\ pc[j] = "errorPending" /\ pc'[j] # pc[j]) =>
                 pc'[j] = "failed" /\ ~processingShown']_vars
    /\ \A j \in Jobs : <>[](pc[j] # "errorPending")

\* C33 witness: the first job displayed its result, the second one took the
\* error path to its end, and the result of the first is still displayed.
C33_Witness ==
    /\ app = "script"
    /\ pc[1] = "done" /\ pc[2] = "failed"
    /\ upOutcome[2] \in UploadFailures
    /\ detectionResults = results[1]
    /\ heatmapRegions = updateHeatmap(results[1][1].signals)
    /\ ~processingShown

\* An upload started by the Hero component as job j is still in flight.
InFlight(j) == pc[j] \in {"uploading", "processing"}

\* C34: in the Hero component every uploadToBackend call whose requests have
\* settled has left results non-null, on the success path and on every
\* failure path, and once no call is in flight the uploading flag is false;
\* and the uploading flag is true for the whole time an upload the component
\* started is in flight.
C34_UploadingCoversFlight ==
    app = "hero" =>
        /\ \A j \in Jobs : pc[j] = "ended" => heroResults # None
        /\ ((\E j \in Jobs : pc[j] = "ended") /\ \A j \in Jobs : ~InFlight(j))
              => ~uploading
        /\ (\E j \in Jobs : InFlight(j)) => uploading

\* The key of detectionResults.signals that holds the signal a card shows.
SignalOfCard(type) == IF type = "meta" THEN "metadata" ELSE type

\* C35: after results are displayed, a click on any of the three signal
\* cards does not fail and opens the details of that same signal: the
\* summary, the confidence and the findings stored for it in
\* detectionResults.signals.
C35_CardOpensItsSignal ==
    (call # None /\ Fn = "showSignalDetails" /\ ret # None) =>
        /\ ret[1] # "TypeError"
        /\ signalModal # None
        /\ LET stored == detectionResults[1].signals[SignalOfCard(Arg)]
           IN /\ signalModal[1].summary = stored.summary
              /\ signalModal[1].confidence = stored.confidence
              /\ Len(signalModal[1].findings) = Len(stored.findings)
              /\ \A i \in 1..Len(stored.findings) :
                    /\ signalModal[1].findings[i].description
                          = stored.findings[i].description
                    /\ signalModal[1].findings[i].confidence
                          = stored.findings[i].confidence

\* The entries of the index whose region [x, y, w, h] holds the scaled click
\* (px, py) with x <= px <= x + w and y <= py <= y + h.
HitEntries ==
    {i \in 1..Len(heatmapRegions) : InsideOrOnBorder(heatmapRegions[i], Arg)}

\* C36: containment in hit-testing is inclusive on all four edges.  A click
\* selects a region exactly when its scaled point lies in some region, edges
\* included, and then it selects the earliest-inserted such region; so a
\* point on an edge two regions share selects the earlier-inserted one.
C36_EdgesInclusive ==
    Clicked =>
        IF HitEntries = {}
        THEN regionModal = None
        ELSE \E i \in HitEntries :
                /\ \A k \in HitEntries : i <= k
                /\ regionModal = Some(heatmapRegions[i])

\* C36 witness: at scale 1 the click (300, 260) lies on the left edge the
\* second ELA region and the second OCR region share and outside every
\* region inserted before them; the ELA region, inserted earlier, is shown.
C36_Witness ==
    /\ Clicked
    /\ ClickAt(300, 260)
    /\ Len(heatmapRegions) >= 4
    /\ heatmapRegions[2].region[1] = 300
    /\ heatmapRegions[4].region[1] = 300
    /\ {2, 4} \subseteq HitEntries
    /\ 1 \notin HitEntries
    /\ regionModal = Some(heatmapRegions[2])

\* C37: the two file validators of the client accept exactly the same
\* files: whatever the declared type, the name ending and the size,
\* validateFile of the main script accepts a file if and only if
\* validateFile of the Hero component does.
C37_ValidatorsAgree ==
    (call # None /\ Fn = "validateFile" /\ ret # None) =>
        (ret[1] <=> Hero_validateFile(Arg) = "ok")

====
